---- MODULE Spec2Model ----
(***************************************************************************)
(* Classroom assignment: the constraint model that                         *)
(* solve_classroom_assignment_from_csv (src/solve_or_tools.py) posts to    *)
(* CP-SAT, and the python-constraint problem of src/main.py.               *)
(*                                                                         *)
(* The solver is external.  It is modelled by its contract: Solve returns  *)
(* any valuation of the declared variables that satisfies every posted     *)
(* constraint, INFEASIBLE when there is none, or UNKNOWN when the time     *)
(* budget runs out first.                                                  *)
(*                                                                         *)
(* The population is scaled so that the solution space can be enumerated:  *)
(* the source has 6 classes of 34/33 seats (200 students), at most 5       *)
(* leaders per class and at most 7 former classmates per class.            *)
(***************************************************************************)
EXTENDS Integers, Sequences, FiniteSets, TLC

\* ---------------------------------------------------------------- bounds
\* NUM_CLASSES = 6 in the source (line 39)
NUM_CLASSES == 3
\* 34 in the source (line 49)
LARGE_SIZE == 2
\* 33 in the source (line 51)
SMALL_SIZE == 1
\* max_leaders_per_class = 5 in the source (line 88)
max_leaders_per_class == 1
\* max_overlap = 7 in the source (line 119)
max_overlap == 1
\* how many times the program is run on the same file
MaxRuns == 2

\* ------------------------------------------------------ program constants
\* random.sample(CLASS_IDS, 2)
NUM_LARGE == 2
\* tolerance = avg_score_per_class * 0.05, as a percentage
TOLERANCE_PCT == 5

CLASS_IDS == 0 .. (NUM_CLASSES - 1)

TotalSeats == NUM_LARGE * LARGE_SIZE + (NUM_CLASSES - NUM_LARGE) * SMALL_SIZE

\* ------------------------------------------------------------- arithmetic
RECURSIVE SumOver(_, _)
SumOver(f, S) ==
    IF S = {} THEN 0
    ELSE LET e == CHOOSE x \in S : TRUE IN f[e] + SumOver(f, S \ {e})

\* Python's int(): truncation toward zero of num/den, den > 0
Trunc(num, den) == IF num >= 0 THEN num \div den ELSE -((-num) \div den)

\* n // k for n >= 0
FloorDiv(n, k) == n \div k

\* math.ceil(n / k) for n >= 0
CeilDiv(n, k) == (n + k - 1) \div k

\* ------------------------------------------------------ the csv and the df
\* A blank cell (NaN once read)
NaN == ""

\* the text of the integers a relation cell can hold
IdTexts == 1 .. (TotalSeats + 2)

\* pd.to_numeric(errors='coerce').fillna(-1).astype(int) on one cell
ToRelationId(cell) ==
    IF \E n \in IdTexts : ToString(n) = cell
    THEN CHOOSE n \in IdTexts : ToString(n) = cell
    ELSE -1

\* lambda x: 1 if x == 'yes' else 0
YesFlag(cell) == IF cell = "yes" THEN 1 ELSE 0

\* rename + type conversion of one row.  The fields class24, clubname, good,
\* bad, truant and athletic stand for the Korean headers of lines 19-26.
NormalizeRow(r) ==
    [id              |-> r.id,
     score           |-> r.score,
     gender          |-> r.sex,
     last_year_class |-> r.class24,
     club            |-> r.clubname,
     good_relation   |-> ToRelationId(r.good),
     bad_relation    |-> ToRelationId(r.bad),
     is_leader       |-> YesFlag(r.Leadership),
     plays_piano     |-> YesFlag(r.Piano),
     is_truant       |-> YesFlag(r.truant),
     is_athletic     |-> YesFlag(r.athletic)]

Normalize(rows) == [i \in DOMAIN rows |-> NormalizeRow(rows[i])]

\* df['id'].tolist(), as a set
StudentIds(d) == {d[i].id : i \in DOMAIN d}

\* df.loc[df['id'] == s, col].iloc[0]: the first row with that id
RowOf(d, s) == d[CHOOSE i \in DOMAIN d :
                     /\ d[i].id = s
                     /\ \A j \in DOMAIN d : d[j].id = s => i <= j]

\* --------------------------------------------------- constraint descriptors
\* One posted constraint.  kind is one of
\*   ExactlyOne  exactly one of assign[s1][c], c in CLASS_IDS
\*   EqIf        assign[s1][c] => student_class[s1] = c     (OnlyEnforceIf)
\*   NotEqual    student_class[s1] # student_class[s2]
\*   Equal       student_class[s1] = student_class[s2]
\*   Linear      lo <= sum of w[s] * assign[s][c] <= hi
\*   LinearGe    lo <= sum of w[s] * assign[s][c]
\*   LinearLe    sum of w[s] * assign[s][c] <= hi
Con(kind, s1, s2, c, w, lo, hi) ==
    [kind |-> kind, s1 |-> s1, s2 |-> s2, c |-> c, w |-> w, lo |-> lo, hi |-> hi]

NoW == <<>>

\* sum(assign[s][c] for s in members): weight 1 on members
Members(members, ids) == [s \in ids |-> IF s \in members THEN 1 ELSE 0]

\* model.Add(sum(...) == size)
SumEq(members, ids, c, size) == Con("Linear", 0, 0, c, Members(members, ids), size, size)

\* model.AddLinearConstraint(sum(...), lo, hi)
SumRange(members, ids, c, lo, hi) == Con("Linear", 0, 0, c, Members(members, ids), lo, hi)

\* ------------------------------------------------------ model construction
\* lines 46-51: 34 seats for the sampled classes, 33 for the others
ClassSizes(large) ==
    [c \in CLASS_IDS |-> IF c \in large THEN LARGE_SIZE ELSE SMALL_SIZE]

\* a draw with replacement (random.choices): the two draws can coincide
SampleLargeWithReplacement ==
    {L \in SUBSET CLASS_IDS : Cardinality(L) >= 1 /\ Cardinality(L) <= NUM_LARGE}

\* random.sample(CLASS_IDS, 2): two distinct classes
SampleLarge == {L \in SUBSET CLASS_IDS : Cardinality(L) = NUM_LARGE}

\* the link is posted for range(NUM_CLASSES - 1): not for the last class
BasicConstraintsLinkOffByOne(d) ==
    {Con("ExactlyOne", s, 0, 0, NoW, 0, 0) : s \in StudentIds(d)}
    \cup {Con("EqIf", sc[1], 0, sc[2], NoW, 0, 0) :
             sc \in StudentIds(d) \X (CLASS_IDS \ {NUM_CLASSES - 1})}

\* lines 62-65
BasicConstraints(d) ==
    {Con("ExactlyOne", s, 0, 0, NoW, 0, 0) : s \in StudentIds(d)}
    \cup {Con("EqIf", sc[1], 0, sc[2], NoW, 0, 0) : sc \in StudentIds(d) \X CLASS_IDS}

\* the size taken as an upper limit: sum(...) <= size
CapacityAtMost(d, sizes) ==
    {Con("LinearLe", 0, 0, c, Members(StudentIds(d), StudentIds(d)), sizes[c], sizes[c]) :
        c \in CLASS_IDS}

\* the sizes are printed but never posted
CapacityNotPosted(d, sizes) == {}

\* lines 67-68
CapacityConstraints(d, sizes) ==
    {SumEq(StudentIds(d), StudentIds(d), c, sizes[c]) : c \in CLASS_IDS}

\* the pairs read from the good_relation column instead
BadRelationFromGoodColumn(d) ==
    {Con("NotEqual", d[i].id, d[i].good_relation, 0, NoW, 0, 0) :
        i \in {j \in DOMAIN d : /\ d[j].good_relation # -1
                                /\ d[j].good_relation \in StudentIds(d)}}

\* lines 73-76
BadRelationConstraints(d) ==
    {Con("NotEqual", d[i].id, d[i].bad_relation, 0, NoW, 0, 0) :
        i \in {j \in DOMAIN d : /\ d[j].bad_relation # -1
                                /\ d[j].bad_relation \in StudentIds(d)}}

\* the friends read from the bad_relation column instead
TruantFriendFromBadColumn(d) ==
    {Con("Equal", d[i].id, d[i].bad_relation, 0, NoW, 0, 0) :
        i \in {j \in DOMAIN d : /\ d[j].is_truant = 1
                                /\ d[j].bad_relation # -1
                                /\ d[j].bad_relation \in StudentIds(d)}}

\* lines 79-84: only truant students are tied to their friend
TruantFriendConstraints(d) ==
    {Con("Equal", d[i].id, d[i].good_relation, 0, NoW, 0, 0) :
        i \in {j \in DOMAIN d : /\ d[j].is_truant = 1
                                /\ d[j].good_relation # -1
                                /\ d[j].good_relation \in StudentIds(d)}}

\* lines 87-91
LeaderConstraints(d) ==
    LET ids == StudentIds(d)
        leader_ids == {d[i].id : i \in {j \in DOMAIN d : d[j].is_leader = 1}}
    IN  {Con("LinearGe", 0, 0, c, Members(leader_ids, ids), 1, 1) : c \in CLASS_IDS}
        \cup {Con("LinearLe", 0, 0, c, Members(leader_ids, ids),
                  max_leaders_per_class, max_leaders_per_class) : c \in CLASS_IDS}

\* only the upper limit is posted: sum(...) <= max_per_class
BalanceConstraintsNoMinimum(with_feature, ids) ==
    LET total_count == Cardinality(with_feature)
        max_per_class == CeilDiv(total_count, NUM_CLASSES)
    IN  {SumRange(with_feature, ids, c, 0, max_per_class) : c \in CLASS_IDS}

\* lines 95-100, for one list of students having a feature
BalanceConstraints(with_feature, ids) ==
    LET total_count == Cardinality(with_feature)
        min_per_class == FloorDiv(total_count, NUM_CLASSES)
        max_per_class == CeilDiv(total_count, NUM_CLASSES)
    IN  {SumRange(with_feature, ids, c, min_per_class, max_per_class) : c \in CLASS_IDS}

\* lines 94-100
FeatureConstraints(d) ==
    LET ids == StudentIds(d)
    IN  BalanceConstraints({d[i].id : i \in {j \in DOMAIN d : d[j].plays_piano = 1}}, ids)
        \cup BalanceConstraints({d[i].id : i \in {j \in DOMAIN d : d[j].is_truant = 1}}, ids)
        \cup BalanceConstraints({d[i].id : i \in {j \in DOMAIN d : d[j].is_athletic = 1}}, ids)

\* lines 103-107: bounds the boys only
GenderConstraints(d) ==
    BalanceConstraints({d[i].id : i \in {j \in DOMAIN d : d[j].gender = "boy"}},
                       StudentIds(d))

\* lines 110-115.  The bounds are computed exactly where the source uses
\* floats: int(total/K * 0.95) and int(total/K * 1.05).
ScoreConstraints(d) ==
    LET ids == StudentIds(d)
        total_score == SumOver([i \in DOMAIN d |-> d[i].score], DOMAIN d)
        \* avg - tolerance = total/K * (100 - 5)/100, truncated by int()
        lo == Trunc(total_score * (100 - TOLERANCE_PCT), 100 * NUM_CLASSES)
        hi == Trunc(total_score * (100 + TOLERANCE_PCT), 100 * NUM_CLASSES)
    IN  {Con("Linear", 0, 0, c, [s \in ids |-> RowOf(d, s).score], lo, hi) : c \in CLASS_IDS}

\* lines 118-123
LastYearConstraints(d) ==
    LET ids == StudentIds(d)
        last_year_classes == {d[i].last_year_class : i \in DOMAIN d} \ {NaN}
    IN  {Con("LinearLe", 0, 0, lc[2],
             Members({d[i].id : i \in {j \in DOMAIN d : d[j].last_year_class = lc[1]}}, ids),
             max_overlap, max_overlap) : lc \in last_year_classes \X CLASS_IDS}

\* lines 126-132
ClubConstraints(d) ==
    LET ids == StudentIds(d)
        all_clubs == {d[i].club : i \in DOMAIN d} \ {NaN}
    IN  UNION {BalanceConstraints({d[i].id : i \in {j \in DOMAIN d : d[j].club = club}}, ids) :
                  club \in all_clubs}

\* every constraint posted between lines 55 and 132
BuildModel(d, sizes) ==
    BasicConstraints(d) \cup CapacityConstraints(d, sizes)
    \cup BadRelationConstraints(d) \cup TruantFriendConstraints(d)
    \cup LeaderConstraints(d) \cup FeatureConstraints(d) \cup GenderConstraints(d)
    \cup ScoreConstraints(d) \cup LastYearConstraints(d) \cup ClubConstraints(d)

\* ------------------------------------------------------- solver semantics
\* a valuation: v[s] = <<row, x>>, row[c] the value of assign[s][c],
\* x the value of student_class[s]
LinSum(con, v) ==
    SumOver([s \in DOMAIN con.w |-> IF v[s][1][con.c] THEN con.w[s] ELSE 0], DOMAIN con.w)

Holds(con, v) ==
    CASE con.kind = "ExactlyOne" -> Cardinality({c \in CLASS_IDS : v[con.s1][1][c]}) = 1
      [] con.kind = "EqIf"       -> v[con.s1][1][con.c] => v[con.s1][2] = con.c
      [] con.kind = "NotEqual"   -> v[con.s1][2] # v[con.s2][2]
      [] con.kind = "Equal"      -> v[con.s1][2] = v[con.s2][2]
      [] con.kind = "Linear"     -> LET t == LinSum(con, v) IN con.lo <= t /\ t <= con.hi
      [] con.kind = "LinearGe"   -> con.lo <= LinSum(con, v)
      [] con.kind = "LinearLe"   -> LinSum(con, v) <= con.hi

\* the constraints over the variables of one student only
IsLocal(con) == con.kind \in {"ExactlyOne", "EqIf"}

\* NewIntVar(0, NUM_CLASSES - 1) and NUM_CLASSES NewBoolVar per student
VarDomain == [CLASS_IDS -> BOOLEAN] \X CLASS_IDS

\* the values of one student's variables that its own constraints allow
LocalValues(m, s) ==
    {rv \in VarDomain :
        \A con \in {k \in m : IsLocal(k) /\ k.s1 = s} : Holds(con, [t \in {s} |-> rv])}

\* every valuation of the declared variables that the one-student constraints allow
RECURSIVE Valuations(_, _)
Valuations(m, ids) ==
    IF ids = {} THEN {<<>>}
    ELSE LET s == CHOOSE x \in ids : TRUE
             allowed == LocalValues(m, s)
         IN  {f @@ (s :> rv) : f \in Valuations(m, ids \ {s}), rv \in allowed}

\* every valuation satisfying every posted constraint
Solutions(m, ids) ==
    LET global == {k \in m : ~IsLocal(k)}
    IN  {v \in Valuations(m, ids) : \A con \in global : Holds(con, v)}

\* ------------------------------------------------------------ input files
\* the rows every input starts from: one high scorer, leaders on even rows
BaseRow(i) ==
    [id         |-> i,
     score      |-> IF i = 1 THEN 7 ELSE IF i = 3 THEN 4 ELSE 3,
     sex        |-> "girl",
     class24    |-> NaN,
     clubname   |-> NaN,
     good       |-> NaN,
     bad        |-> NaN,
     Leadership |-> IF i = 1 \/ i % 2 = 0 THEN "yes" ELSE NaN,
     Piano      |-> NaN,
     truant     |-> NaN,
     athletic   |-> NaN]

\* the base rows with one column drawn freely from vals
VaryColumn(n, col, vals) ==
    {[i \in 1 .. n |-> [BaseRow(i) EXCEPT ![col] = f[i]]] : f \in [1 .. n -> vals]}

\* what a relation cell of a file of n rows can hold: blank, text, the id of
\* a row, an id of no row
RelationCells(n) == {NaN, "x"} \cup {ToString(k) : k \in 1 .. (n + 1)}

\* rows 2 and 3 name a student they do not get on with
BadRelationFiles(n) ==
    {[i \in 1 .. n |->
        [BaseRow(i) EXCEPT !.bad = IF i = 2 THEN b[1] ELSE IF i = 3 THEN b[2] ELSE NaN]] :
        b \in RelationCells(n) \X RelationCells(n)}

\* rows 2 and 3 name a friend, and are truant or not
GoodRelationFiles(n) ==
    {[i \in 1 .. n |->
        [BaseRow(i) EXCEPT !.good = IF i = 2 THEN g[1] ELSE IF i = 3 THEN g[2] ELSE NaN,
                           !.truant = IF i = 2 THEN g[3] ELSE IF i = 3 THEN g[4] ELSE NaN]] :
        g \in RelationCells(n) \X RelationCells(n) \X {"yes", NaN} \X {"yes", NaN}}

\* who can hold a feature in a mixed file: nobody, row 1, rows 2 and 3
Holders == {{}, {1}, {2, 3}}

\* piano, truancy, sport and the chess club held independently
MixedFiles(n) ==
    {[i \in 1 .. n |->
        [BaseRow(i) EXCEPT !.Piano    = IF i \in h[1] THEN "yes" ELSE NaN,
                           !.truant   = IF i \in h[2] THEN "yes" ELSE NaN,
                           !.athletic = IF i \in h[3] THEN "yes" ELSE NaN,
                           !.clubname = IF i \in h[4] THEN "chess" ELSE NaN]] :
        h \in Holders \X Holders \X Holders \X Holders}

\* files with one row fewer, and one row more, than there are seats
ShortFiles(n) == VaryColumn(n - 1, "score", {3, 4, 7})

LongFiles(n) == VaryColumn(n + 1, "Piano", {"yes"}) \cup VaryColumn(n + 1, "Piano", {NaN})

\* the files the script is run on, n the number of seats
CsvFiles(n) ==
    VaryColumn(n, "score", {3, 4, 7})
    \cup VaryColumn(n, "sex", {"boy", "girl"})
    \cup VaryColumn(n, "Leadership", {"yes", NaN})
    \cup VaryColumn(n, "Piano", {"yes", "no"})
    \cup VaryColumn(n, "truant", {"yes", NaN})
    \cup VaryColumn(n, "athletic", {"yes", NaN})
    \cup VaryColumn(n, "clubname", {NaN, "chess", "band"})
    \cup VaryColumn(n, "class24", {NaN, "3-1"})
    \cup BadRelationFiles(n)
    \cup GoodRelationFiles(n)
    \cup MixedFiles(n)
    \cup ShortFiles(n)
    \cup LongFiles(n)

\* the files the script is run on twice
RerunFiles(n) == VaryColumn(n, "sex", {"boy", "girl"}) \cup ShortFiles(n)

\* ------------------------------------------------- src/main.py: the state
VARIABLES
    m_pc,                       \* dislikes, preferences, teachers, problem, solve, report, end
    NUM_CLASSROOMS,             \* the module constant, fixed for a run
    draws,                      \* iterations of the dislike loop done
    student_dislikes,           \* set of pairs <<s1, s2>>
    student_preferences,        \* student -> subject
    classroom_teacher_subjects, \* classroom -> subject
    problem,                    \* the constraints added to the Problem
    solutions                   \* what problem.getSolutions() returned

mainvars == <<m_pc, NUM_CLASSROOMS, draws, student_dislikes, student_preferences,
              classroom_teacher_subjects, problem, solutions>>

\* the script has not been started
MainIdle ==
    /\ m_pc = "idle"
    /\ NUM_CLASSROOMS = 0
    /\ draws = 0
    /\ student_dislikes = {}
    /\ student_preferences = <<>>
    /\ classroom_teacher_subjects = <<>>
    /\ problem = {}
    /\ solutions = {}

\* ------------------------------------ src/solve_or_tools.py: the state
VARIABLES
    pc,              \* where the run is: start, loaded, sized, built, solved, done
    file_found,      \* whether file_path exists
    csv,             \* the rows of the file
    df,              \* the data frame after renaming and conversion
    large_CLASS_IDS, \* the classes sampled to have the larger size
    CLASS_SIZES,     \* class id -> exact number of seats
    model,           \* the constraints posted to the CpModel
    status,          \* what solver.Solve returned
    value,           \* solver.Value of every variable, when a solution was found
    assigned_class,  \* the df column written by the report, 1-based
    run,             \* which run on this file this is
    prev_model,      \* the constraints the previous run posted
    prev_large       \* the classes the previous run sampled

orvars == <<pc, file_found, csv, df, large_CLASS_IDS, CLASS_SIZES, model, status,
          value, assigned_class, run, prev_model, prev_large>>

Init ==
    /\ pc = "start"
    /\ file_found \in BOOLEAN
    /\ csv \in (IF file_found THEN CsvFiles(TotalSeats) ELSE {<<>>})
    /\ df = <<>>
    /\ large_CLASS_IDS = {}
    /\ CLASS_SIZES = <<>>
    /\ model = {}
    /\ status = "NONE"
    /\ value = <<>>
    /\ assigned_class = <<>>
    /\ run = 1
    /\ prev_model = {}
    /\ prev_large = {}
    /\ MainIdle

\* lines 10-14: the file is missing, the function returns
LoadFails ==
    /\ pc = "start"
    /\ ~file_found
    /\ pc' = "done"
    /\ UNCHANGED <<file_found, csv, df, large_CLASS_IDS, CLASS_SIZES, model, status,
                   value, assigned_class, run, prev_model, prev_large>>
    /\ UNCHANGED mainvars

\* lines 10-40: read, rename, convert
Load ==
    /\ pc = "start"
    /\ file_found
    /\ df' = Normalize(csv)
    /\ pc' = "loaded"
    /\ UNCHANGED <<file_found, csv, large_CLASS_IDS, CLASS_SIZES, model, status,
                   value, assigned_class, run, prev_model, prev_large>>
    /\ UNCHANGED mainvars

\* lines 43-52: sample the large classes, fix the sizes
ChooseSizes ==
    /\ pc = "loaded"
    /\ \E large \in SampleLarge :
          /\ large_CLASS_IDS' = large
          /\ CLASS_SIZES' = ClassSizes(large)
    /\ pc' = "sized"
    /\ UNCHANGED <<file_found, csv, df, model, status, value, assigned_class, run,
                   prev_model, prev_large>>
    /\ UNCHANGED mainvars

\* lines 55-132: declare the variables, post every constraint
Build ==
    /\ pc = "sized"
    /\ model' = BuildModel(df, CLASS_SIZES)
    /\ pc' = "built"
    /\ UNCHANGED <<file_found, csv, df, large_CLASS_IDS, CLASS_SIZES, status, value,
                   assigned_class, run, prev_model, prev_large>>
    /\ UNCHANGED mainvars

\* lines 136-138: the solver finds a solution, or proves there is none
Solve ==
    /\ pc = "built"
    /\ LET sols == Solutions(model, StudentIds(df))
       IN  \/ \E v \in sols :
                 /\ value' = v
                 /\ status' = "OPTIMAL"
           \/ /\ sols = {}
              /\ status' = "INFEASIBLE"
              /\ UNCHANGED value
    /\ pc' = "solved"
    /\ UNCHANGED <<file_found, csv, df, large_CLASS_IDS, CLASS_SIZES, model,
                   assigned_class, run, prev_model, prev_large>>
    /\ UNCHANGED mainvars

\* lines 136-138: max_time_in_seconds elapses first
SolveTimeout ==
    /\ pc = "built"
    /\ status' = "UNKNOWN"
    /\ pc' = "solved"
    /\ UNCHANGED <<file_found, csv, df, large_CLASS_IDS, CLASS_SIZES, model, value,
                   assigned_class, run, prev_model, prev_large>>
    /\ UNCHANGED mainvars

\* lines 141-173: write the 1-based class of every student
ReportSolution ==
    /\ pc = "solved"
    /\ status \in {"OPTIMAL", "FEASIBLE"}
    /\ assigned_class' = [s \in StudentIds(df) |-> value[s][2] + 1]
    /\ pc' = "done"
    /\ UNCHANGED <<file_found, csv, df, large_CLASS_IDS, CLASS_SIZES, model, status,
                   value, run, prev_model, prev_large>>
    /\ UNCHANGED mainvars

\* lines 175-176
ReportFailure ==
    /\ pc = "solved"
    /\ status \notin {"OPTIMAL", "FEASIBLE"}
    /\ pc' = "done"
    /\ UNCHANGED <<file_found, csv, df, large_CLASS_IDS, CLASS_SIZES, model, status,
                   value, assigned_class, run, prev_model, prev_large>>
    /\ UNCHANGED mainvars

\* lines 179-180: the script is run again on the same file
RunAgain ==
    /\ pc = "done"
    /\ run < MaxRuns
    /\ run' = run + 1
    /\ prev_model' = model
    /\ prev_large' = large_CLASS_IDS
    /\ pc' = "start"
    /\ df' = <<>>
    /\ large_CLASS_IDS' = {}
    /\ CLASS_SIZES' = <<>>
    /\ model' = {}
    /\ status' = "NONE"
    /\ value' = <<>>
    /\ assigned_class' = <<>>
    /\ UNCHANGED <<file_found, csv>>
    /\ UNCHANGED mainvars

Next ==
    \/ LoadFails
    \/ Load
    \/ ChooseSizes
    \/ Build
    \/ Solve
    \/ SolveTimeout
    \/ ReportSolution
    \/ ReportFailure

vars == <<orvars, mainvars>>

Spec == Init /\ [][Next]_vars

\* the same, the script being run twice on a file
InitRerun ==
    /\ Init
    /\ csv \in RerunFiles(TotalSeats) \cup {<<>>}

NextRerun == Next \/ RunAgain

SpecRerun == InitRerun /\ [][NextRerun]_vars

\* ============================================================ src/main.py
\* NUM_STUDENTS = 50 in the source (line 6)
NUM_STUDENTS == 4
\* NUM_CLASSROOMS = 10 in the source (line 7); the runs take 2 .. MaxClassrooms
MaxClassrooms == 3
\* range(NUM_STUDENTS // 10): 5 draws in the source (line 15)
DislikeDraws == 1
\* the -2 / +2 of lines 113-114
DEVIATION == 2

\* line 23, the first two of the ten subjects
subjects == <<"Math", "Science">>

\* the keys of student_scores: student i stands for f"S{i}"
Students == 0 .. (NUM_STUDENTS - 1)

\* line 8
CLASSROOM_IDS == 0 .. (NUM_CLASSROOMS - 1)

\* subjects[i] of a 0-based Python list
SubjectAt(i) == subjects[i + 1]

\* lines 28-37
TeacherSubjects ==
    IF NUM_CLASSROOMS <= Len(subjects)
    THEN [c \in CLASSROOM_IDS |-> SubjectAt(c)]
    ELSE [c \in CLASSROOM_IDS |-> SubjectAt(c % Len(subjects))]

\* lines 113-116
min_students_per_class ==
    IF (NUM_STUDENTS \div NUM_CLASSROOMS) - DEVIATION < 1
    THEN 1
    ELSE (NUM_STUDENTS \div NUM_CLASSROOMS) - DEVIATION

\* line 114
max_students_per_class == (NUM_STUDENTS \div NUM_CLASSROOMS) + DEVIATION

\* one constraint of the Problem.  kind is one of
\*   Count    min <= number of students in classroom c <= max
\*   Dislike  class of s1 # class of s2
\*   Subject  classroom_teacher_subjects[class of s1] = fav
\* (Together, class of s1 = class of s2, is posted by no line of the source)
MCon(kind, s1, s2, c, fav) == [kind |-> kind, s1 |-> s1, s2 |-> s2, c |-> c, fav |-> fav]

\* lines 119-122
CountConstraints == {MCon("Count", 0, 0, c, "") : c \in CLASSROOM_IDS}

\* the lambda written with == : the pair is kept together
DislikeConstraintsSameClass == {MCon("Together", p[1], p[2], 0, "") : p \in student_dislikes}

\* lines 125-127
DislikeConstraints == {MCon("Dislike", p[1], p[2], 0, "") : p \in student_dislikes}

\* lines 132-135
SubjectConstraints ==
    {MCon("Subject", s, 0, 0, student_preferences[s]) : s \in Students}

\* a constraint holds of an assignment student -> classroom
HoldsMain(con, sol) ==
    CASE con.kind = "Count" ->
             LET n == Cardinality({s \in Students : sol[s] = con.c})
             IN  min_students_per_class <= n /\ n <= max_students_per_class
      [] con.kind = "Dislike" -> sol[con.s1] # sol[con.s2]
      [] con.kind = "Together" -> sol[con.s1] = sol[con.s2]
      [] con.kind = "Subject" -> classroom_teacher_subjects[sol[con.s1]] = con.fav

\* line 169: every assignment over the domains satisfying every constraint
GetSolutions ==
    {sol \in [Students -> CLASSROOM_IDS] : \A con \in problem : HoldsMain(con, sol)}

\* the other script has not been started
OrIdle ==
    /\ pc = "idle"
    /\ file_found = FALSE
    /\ csv = <<>>
    /\ df = <<>>
    /\ large_CLASS_IDS = {}
    /\ CLASS_SIZES = <<>>
    /\ model = {}
    /\ status = "NONE"
    /\ value = <<>>
    /\ assigned_class = <<>>
    /\ run = 1
    /\ prev_model = {}
    /\ prev_large = {}

InitMain ==
    /\ OrIdle
    /\ m_pc = "dislikes"
    /\ NUM_CLASSROOMS \in 2 .. MaxClassrooms
    /\ draws = 0
    /\ student_dislikes = {}
    /\ student_preferences = <<>>
    /\ classroom_teacher_subjects = <<>>
    /\ problem = {}
    /\ solutions = {}

\* lines 15-19: one iteration of the dislike loop
DrawDislike ==
    /\ m_pc = "dislikes"
    /\ draws < DislikeDraws
    /\ \E s1, s2 \in Students :
          student_dislikes' =
              IF s1 # s2 /\ <<s2, s1>> \notin student_dislikes
              THEN student_dislikes \cup {<<s1, s2>>}
              ELSE student_dislikes
    /\ draws' = draws + 1
    /\ UNCHANGED <<m_pc, NUM_CLASSROOMS, student_preferences, classroom_teacher_subjects,
                   problem, solutions>>
    /\ UNCHANGED orvars

\* line 24, once the loop is over
DrawPreferences ==
    /\ m_pc = "dislikes"
    /\ draws = DislikeDraws
    /\ student_preferences' \in [Students -> {subjects[i] : i \in DOMAIN subjects}]
    /\ m_pc' = "teachers"
    /\ UNCHANGED <<NUM_CLASSROOMS, draws, student_dislikes, classroom_teacher_subjects,
                   problem, solutions>>
    /\ UNCHANGED orvars

\* lines 28-37
AssignTeachers ==
    /\ m_pc = "teachers"
    /\ classroom_teacher_subjects' = TeacherSubjects
    /\ m_pc' = "problem"
    /\ UNCHANGED <<NUM_CLASSROOMS, draws, student_dislikes, student_preferences,
                   problem, solutions>>
    /\ UNCHANGED orvars

\* lines 42-135
BuildProblem ==
    /\ m_pc = "problem"
    /\ problem' = CountConstraints \cup DislikeConstraints \cup SubjectConstraints
    /\ m_pc' = "solve"
    /\ UNCHANGED <<NUM_CLASSROOMS, draws, student_dislikes, student_preferences,
                   classroom_teacher_subjects, solutions>>
    /\ UNCHANGED orvars

\* line 169
SolveProblem ==
    /\ m_pc = "solve"
    /\ solutions' = GetSolutions
    /\ m_pc' = "report"
    /\ UNCHANGED <<NUM_CLASSROOMS, draws, student_dislikes, student_preferences,
                   classroom_teacher_subjects, problem>>
    /\ UNCHANGED orvars

\* lines 171-203: print, nothing is changed
ReportMain ==
    /\ m_pc = "report"
    /\ m_pc' = "end"
    /\ UNCHANGED <<NUM_CLASSROOMS, draws, student_dislikes, student_preferences,
                   classroom_teacher_subjects, problem, solutions>>
    /\ UNCHANGED orvars

NextMain ==
    \/ DrawDislike
    \/ DrawPreferences
    \/ AssignTeachers
    \/ BuildProblem
    \/ SolveProblem
    \/ ReportMain

SpecMain == InitMain /\ [][NextMain]_vars


\* ------------------------------------------------------------- properties
\* the solver returned a solution
Found == pc \in {"solved", "done"} /\ status \in {"OPTIMAL", "FEASIBLE"}

\* the model has been constructed from a file that was read
Constructed == file_found /\ pc \in {"built", "solved", "done"}

Ids == StudentIds(df)

\* the class reported for a student
ClassOf(s) == value[s][2]

\* the indicators of a student that are true
TrueIndicators(s) == {c \in CLASS_IDS : value[s][1][c]}

\* how many of the students S are in class c
CountIn(S, c) == Cardinality({s \in S : ClassOf(s) = c})

\* the students whose row satisfies a condition
IdsWhere(P(_)) == {df[i].id : i \in {j \in DOMAIN df : P(df[j])}}

\* floor(total/K) <= count <= ceil(total/K) in every class
Balanced(S) ==
    \A c \in CLASS_IDS :
        /\ FloorDiv(Cardinality(S), NUM_CLASSES) <= CountIn(S, c)
        /\ CountIn(S, c) <= CeilDiv(Cardinality(S), NUM_CLASSES)

SeatsTotal == SumOver(CLASS_SIZES, CLASS_IDS)

\* C1: in every solution each student has exactly one true indicator
\* assign[student][class], student_class[student] is the class of that
\* indicator, and the reported class is that class, 1-based.
C1_ExactlyOneClass ==
    Found =>
        \A s \in Ids :
            /\ Cardinality(TrueIndicators(s)) = 1
            /\ ClassOf(s) \in TrueIndicators(s)
            /\ pc = "done" => assigned_class[s] - 1 \in TrueIndicators(s)

C1_Witness ==
    /\ pc = "done"
    /\ status = "OPTIMAL"
    /\ Cardinality(Ids) = TotalSeats
    /\ \E s, t \in Ids : assigned_class[s] # assigned_class[t]

\* C2: in every solution the number of students of class c is exactly
\* CLASS_SIZES[c], the larger size for the NUM_LARGE sampled classes and
\* the smaller size for the others.
C2_ExactCapacity ==
    Found =>
        /\ Cardinality({c \in CLASS_IDS : CLASS_SIZES[c] = LARGE_SIZE}) = NUM_LARGE
        /\ \A c \in CLASS_IDS :
              /\ CountIn(Ids, c) = CLASS_SIZES[c]
              /\ CLASS_SIZES[c] = (IF c \in large_CLASS_IDS THEN LARGE_SIZE ELSE SMALL_SIZE)

C2_Witness ==
    /\ Found
    /\ \E c \in CLASS_IDS : CountIn(Ids, c) = LARGE_SIZE
    /\ \E c \in CLASS_IDS : CountIn(Ids, c) = SMALL_SIZE

\* C3: a student whose bad_relation is the id of a student of the file is
\* never in the class of that student; a bad_relation that is the id of no
\* student posts no constraint.
C3_BadRelationApart ==
    /\ Found =>
          \A i \in DOMAIN df :
              df[i].bad_relation \in Ids => ClassOf(df[i].id) # ClassOf(df[i].bad_relation)
    /\ Constructed =>
          \A i \in DOMAIN df :
              df[i].bad_relation \notin Ids =>
                  ~\E con \in model : con.kind = "NotEqual" /\ con.s1 = df[i].id

C3_Witness ==
    /\ Found
    /\ \E i \in DOMAIN df : df[i].bad_relation \in Ids
    /\ \E i \in DOMAIN df : df[i].bad_relation # -1 /\ df[i].bad_relation \notin Ids

\* C4 as stated: every student whose good_relation is the id of a student
\* of the file is in the class of that student.
C4_Original ==
    Found =>
        \A i \in DOMAIN df :
            df[i].good_relation \in Ids => ClassOf(df[i].id) = ClassOf(df[i].good_relation)

\* C4 amended: every truant student whose good_relation is the id of a
\* student of the file is in the class of that student.
C4_TruantWithFriend ==
    Found =>
        \A i \in DOMAIN df :
            (df[i].is_truant = 1 /\ df[i].good_relation \in Ids)
                => ClassOf(df[i].id) = ClassOf(df[i].good_relation)

C4_Witness ==
    /\ Found
    /\ \E i \in DOMAIN df :
          /\ df[i].is_truant = 1
          /\ df[i].good_relation \in Ids
          /\ df[i].good_relation # df[i].id

\* C5: in every solution the sum of the scores of every class lies within
\* [ideal * (1 - tol), ideal * (1 + tol)], ideal = total_score / NUM_CLASSES.
C5_ScoreBand ==
    Found =>
        LET total == SumOver([i \in DOMAIN df |-> df[i].score], DOMAIN df)
        IN  \A c \in CLASS_IDS :
                LET class_total ==
                        SumOver([s \in Ids |-> IF ClassOf(s) = c THEN RowOf(df, s).score ELSE 0],
                                Ids)
                IN  /\ total * (100 - TOLERANCE_PCT) <= class_total * 100 * NUM_CLASSES
                    /\ class_total * 100 * NUM_CLASSES <= total * (100 + TOLERANCE_PCT)

\* C6: in every solution the boys of every class, and the girls of every
\* class, number between floor(total/K) and ceil(total/K).
C6_GenderBalanced ==
    Found =>
        /\ Balanced(IdsWhere(LAMBDA r : r.gender = "boy"))
        /\ Balanced(IdsWhere(LAMBDA r : r.gender = "girl"))

\* C7: in every solution the pianists, the truants, the athletes and the
\* members of each club number between floor(total/K) and ceil(total/K) in
\* every class, and every class has at least one leader and at most
\* max_leaders_per_class.
C7_FeaturesBalanced ==
    Found =>
        /\ Balanced(IdsWhere(LAMBDA r : r.plays_piano = 1))
        /\ Balanced(IdsWhere(LAMBDA r : r.is_truant = 1))
        /\ Balanced(IdsWhere(LAMBDA r : r.is_athletic = 1))
        /\ \A club \in {df[i].club : i \in DOMAIN df} \ {NaN} :
              Balanced(IdsWhere(LAMBDA r : r.club = club))
        /\ \A c \in CLASS_IDS :
              /\ 1 <= CountIn(IdsWhere(LAMBDA r : r.is_leader = 1), c)
              /\ CountIn(IdsWhere(LAMBDA r : r.is_leader = 1), c) <= max_leaders_per_class

C7_Witness ==
    /\ Found
    /\ IdsWhere(LAMBDA r : r.plays_piano = 1) # {}
    /\ IdsWhere(LAMBDA r : r.is_truant = 1) # {}
    /\ IdsWhere(LAMBDA r : r.is_athletic = 1) # {}
    /\ IdsWhere(LAMBDA r : r.club # NaN) # {}

\* C8 as stated: a file whose number of students differs from the number
\* of seats is rejected before the model is constructed.
C8_Original ==
    Constructed => Len(df) = SeatsTotal

\* C8 amended: a file whose number of students differs from the number of
\* seats is not rejected: the model is constructed with its capacity
\* constraints and the solver is run on it, and the run can only end
\* without a solution (INFEASIBLE or UNKNOWN) and without a reported class.
C8_MismatchFindsNothing ==
    (Constructed /\ Len(df) # SeatsTotal) =>
        /\ \A c \in CLASS_IDS : SumEq(Ids, Ids, c, CLASS_SIZES[c]) \in model
        /\ pc \in {"solved", "done"} => status \in {"INFEASIBLE", "UNKNOWN"}
        /\ assigned_class = <<>>

C8_Witness ==
    /\ pc = "done"
    /\ file_found
    /\ Len(df) # SeatsTotal
    /\ status = "INFEASIBLE"

\* the second run has constructed its model, as the first one did
BothConstructed == run = 2 /\ Constructed

\* the capacity constraints a run can post on the file
AnyCapacity == UNION {CapacityConstraints(df, ClassSizes(L)) : L \in SUBSET CLASS_IDS}

\* C9 as stated: two runs on the same file post the same constraints, and
\* give the larger size to the same classes.
C9_Original ==
    BothConstructed => (model = prev_model /\ large_CLASS_IDS = prev_large)

\* C9 amended: two runs on the same file post the same constraints apart
\* from the capacity constraints; each run gives the larger size to exactly
\* NUM_LARGE classes, sampled anew, and the constraints are the same
\* whenever the sampled classes are.
C9_SameUpToCapacity ==
    BothConstructed =>
        /\ model \ AnyCapacity = prev_model \ AnyCapacity
        /\ Cardinality(large_CLASS_IDS) = NUM_LARGE
        /\ Cardinality(prev_large) = NUM_LARGE
        /\ large_CLASS_IDS = prev_large => model = prev_model

C9_Witness ==
    /\ BothConstructed
    /\ large_CLASS_IDS # prev_large
    /\ model # prev_model
    /\ Len(df) = TotalSeats

\* getSolutions has returned
MainSolved == m_pc \in {"report", "end"}

\* the students whose favourite subject is taught in classroom c
Preferring(c) == {s \in Students : student_preferences[s] = classroom_teacher_subjects[c]}

====
